---- MODULE Spec2Model ----
(***************************************************************************)
(* A model of streamlit_app.py: the response normaliser                    *)
(* clean_json_response, run_similarity_analysis, send_email_report and the *)
(* handler of the "Run Similarity Check" button.                           *)
(*                                                                         *)
(* Text is a sequence of one-character strings.  The characters are the    *)
(* ones the regular expressions and int() tell apart: the backtick, the    *)
(* braces, the space (standing for all of \s), the letters of the tag      *)
(* "json", "x" (any other prose character), the digits, the sign, the dot, *)
(* and "B", which stands for the members of a JSON object (the text        *)
(* between its braces); the dict those members denote is kept beside the   *)
(* text as the payload.  A response is a JSON object whose Risk_Level,     *)
(* Reasoning and Matching_Product_ID, when present, are JSON strings; its  *)
(* Similarity_Score_Percent is a JSON string or a JSON integer.  The page  *)
(* is the sequence ui of the st.* calls made, in order.                    *)
(***************************************************************************)
EXTENDS Integers, Sequences, FiniteSets, TLC

VARIABLES
    client,          \* line 54-60: TRUE iff genai.Client was constructed
    sender_set,      \* line 16/183: TRUE iff SENDER_EMAIL is not the placeholder
    pc,              \* position of the button handler
    calls,           \* generate_content invocations made by the current action
    response_text,   \* response.text of the current action
    payload,         \* the dict the "B" of response_text denotes
    analysis_data,   \* line 220
    error,           \* line 220
    score,           \* line 229/232
    risk,            \* line 235
    tier,            \* banner shown by lines 236-244
    action_rec,      \* lines 238/241/244
    ui,              \* the st.* calls of the current run, in order
    crashed,         \* uncaught exception that ended the script run
    report,          \* report_body built by send_email_report
    sends,           \* send_email_report invocations made by the current action
    outcome,         \* what generate_content did: "raises" or "text"
    raw,             \* normaliser harness: the input text
    cleaned,         \* normaliser harness: clean_json_response(raw)
    recleaned,       \* normaliser harness: clean_json_response(cleaned)
    cpc              \* normaliser harness: position

vars == <<client, sender_set, pc, calls, response_text, payload, analysis_data,
          error, score, risk, tier, action_rec, ui, crashed, report,
          sends, outcome,
          raw, cleaned, recleaned, cpc>>

(***************************************************************************)
(* Bounds                                                                  *)
(***************************************************************************)
\* The normaliser harness feeds texts made of at most MaxSegs segments.
MaxSegs == 4

(***************************************************************************)
(* Python str helpers                                                      *)
(***************************************************************************)
\* s[a..b] as a sequence (empty when a > b)
Slice(s, a, b) == IF a > b THEN <<>> ELSE SubSeq(s, a, b)

\* first index >= i of s that holds no whitespace, Len(s)+1 when there is none
SkipSpaces(s, i) ==
    IF \E k \in i..Len(s) : s[k] # " "
    THEN CHOOSE k \in i..Len(s) : s[k] # " " /\ \A m \in i..(k-1) : s[m] = " "
    ELSE Len(s) + 1

\* str.strip()
PyStrip(s) ==
    LET a == SkipSpaces(s, 1)
    IN  IF a > Len(s) THEN <<>>
        ELSE LET b == CHOOSE k \in a..Len(s) :
                          s[k] # " " /\ \A m \in (k+1)..Len(s) : s[m] = " "
             IN  SubSeq(s, a, b)

Digits == {"0", "1", "2", "3", "4", "5", "6", "7", "8", "9"}

DigitVal(c) ==
    CASE c = "0" -> 0 [] c = "1" -> 1 [] c = "2" -> 2 [] c = "3" -> 3
      [] c = "4" -> 4 [] c = "5" -> 5 [] c = "6" -> 6 [] c = "7" -> 7
      [] c = "8" -> 8 [] c = "9" -> 9

RECURSIVE DecimalValue(_)
DecimalValue(s) ==
    IF s = <<>> THEN 0
    ELSE DecimalValue(SubSeq(s, 1, Len(s) - 1)) * 10 + DigitVal(s[Len(s)])

\* int(s) for a str s: surrounding whitespace dropped, an optional sign, then
\* one or more decimal digits; anything else raises ValueError (ok = FALSE).
PyInt(s) ==
    LET t      == PyStrip(s)
        signed == t # <<>> /\ t[1] \in {"+", "-"}
        digs   == IF signed THEN Tail(t) ELSE t
    IN  IF digs # <<>> /\ \A k \in 1..Len(digs) : digs[k] \in Digits
        THEN [ok |-> TRUE,
              val |-> IF signed /\ t[1] = "-" THEN 0 - DecimalValue(digs)
                      ELSE DecimalValue(digs)]
        ELSE [ok |-> FALSE, val |-> 0]

(***************************************************************************)
(* clean_json_response                                                     *)
(***************************************************************************)
\* The backtick is written "^".
Fence == <<"^", "^", "^">>
JsonTag == <<"j", "s", "o", "n">>

IsFence(t, i) == i >= 1 /\ i + 2 <= Len(t) /\ SubSeq(t, i, i + 2) = Fence

HasJsonTag(t, i) == i >= 1 /\ i + 3 <= Len(t) /\ SubSeq(t, i, i + 3) = JsonTag

\* \s* followed by a fence matches at e
ClosesAt(t, e) == IsFence(t, SkipSpaces(t, e))

\* re.search(fence (?:json)?\s*([\s\S]*?)\s* fence, t): the match starts at the
\* leftmost fence that is followed by a second, non-overlapping fence.  The
\* tag and the whitespace after it are taken greedily (no backtick lies in
\* them, so giving them back never finds another match); the group is lazy
\* and ends at the first position from which \s* and a fence match.
FenceStarts(t) ==
    {i \in 1..Len(t) : IsFence(t, i) /\ \E j \in (i+3)..Len(t) : IsFence(t, j)}

FenceGroup(t) ==
    LET i  == CHOOSE k \in FenceStarts(t) : \A m \in FenceStarts(t) : k <= m
        p0 == IF HasJsonTag(t, i + 3) THEN i + 7 ELSE i + 3
        p  == SkipSpaces(t, p0)
        e  == CHOOSE k \in p..Len(t) :
                  ClosesAt(t, k) /\ \A m \in p..(k-1) : ~ClosesAt(t, m)
    IN  Slice(t, p, e - 1)

\* re.search(r'\{[\s\S]*\}', t): from the first "{" to the last "}"
BraceOpens(t) == {i \in 1..Len(t) : t[i] = "{"}
BraceCloses(t) == {i \in 1..Len(t) : t[i] = "}"}

BraceMatches(t) ==
    \E i \in BraceOpens(t) : \E j \in BraceCloses(t) : i < j

BraceGroup(t) ==
    LET i == CHOOSE k \in BraceOpens(t) : \A m \in BraceOpens(t) : k <= m
        j == CHOOSE k \in BraceCloses(t) : \A m \in BraceCloses(t) : k >= m
    IN  SubSeq(t, i, j)

clean_json_response(response_text_) ==
    IF FenceStarts(response_text_) # {}
    THEN PyStrip(FenceGroup(response_text_))
    ELSE IF BraceMatches(PyStrip(response_text_))
         THEN PyStrip(BraceGroup(PyStrip(response_text_)))
         ELSE PyStrip(response_text_)

(***************************************************************************)
(* JSON values carried by a response                                       *)
(***************************************************************************)
\* None, for analysis_data and for the detail of an error
None == [None |-> TRUE]
IsNone(d) == "None" \in DOMAIN d

\* bool(d) of a dict or None
Truthy(d) == ~IsNone(d) /\ DOMAIN d # {}

\* A JSON string (its text) and a JSON integer.  The score text is kept
\* character by character; labels and other free text are kept whole, as a
\* one-element text.
JsonStr(s) == [type |-> "str", s |-> s, n |-> 0]
JsonInt(n) == [type |-> "int", s |-> <<>>, n |-> n]

\* strings int() accepts
IntegerStrings ==
    { <<"0">>, <<"1", "0">>, <<"2", "5">>, <<"2", "6">>, <<"7", "5">>,
      <<"7", "6">>, <<"1", "0", "0">>, <<"1", "5", "0">>, <<"-", "5">>,
      <<" ", "7", "5", " ">> }
\* strings that hold no number
NonNumericStrings == { <<"x", "x", "x">>, <<>>, <<"7", "x">> }
\* a decimal fraction
FractionStrings == { <<"9", "5", ".", "5">> }

ScoreInts == {10, 75, 95}

ScoreValues ==
    {JsonStr(s) : s \in IntegerStrings \cup NonNumericStrings \cup FractionStrings}
        \cup {JsonInt(n) : n \in ScoreInts}

RiskLabels == {"HIGH RISK", "Medium Risk", "low risk", "High"}

\* str.lower() and str.upper() on the labels
PyLower(l) ==
    CASE l = "HIGH RISK"   -> "high risk"
      [] l = "Medium Risk" -> "medium risk"
      [] l = "low risk"    -> "low risk"
      [] l = "High"        -> "high"

PyUpper(l) ==
    CASE l = "HIGH RISK"   -> "HIGH RISK"
      [] l = "Medium Risk" -> "MEDIUM RISK"
      [] l = "low risk"    -> "LOW RISK"
      [] l = "High"        -> "HIGH"

AllKeys == {"Similarity_Score_Percent", "Risk_Level", "Matching_Product_ID", "Reasoning"}

MakeDict(keys, sc, rl) ==
    [k \in keys |->
        CASE k = "Similarity_Score_Percent" -> sc
          [] k = "Risk_Level"               -> JsonStr(<<rl>>)
          [] k = "Matching_Product_ID"      -> JsonStr(<<"P001">>)
          [] k = "Reasoning"                -> JsonStr(<<"r">>)]

\* the dicts a response may carry (a JSON object with at least one member)
Payloads ==
    {MakeDict(K, sc, rl) : K \in (SUBSET AllKeys) \ {{}}, sc \in ScoreValues, rl \in RiskLabels}

\* the label text of a dict
LabelOf(d) == d["Risk_Level"].s[1]

Obj == <<"{", "B", "}">>

\* response texts: the bare object, fenced with and without the tag, wrapped
\* in prose, prose alone, the empty object, a truncated object, nothing,
\* fenced prose
ResponseTexts ==
    { Obj,
      Fence \o JsonTag \o <<" ">> \o Obj \o <<" ">> \o Fence,
      Fence \o Obj \o Fence,
      <<"x", " ">> \o Obj \o <<" ", "x">>,
      <<"x", "x">>,
      <<"{", "}">>,
      <<"{", "B">>,
      <<>>,
      Fence \o JsonTag \o <<"x">> \o Fence }

\* json.loads(s), body being the dict the members "B" denote: whitespace
\* between tokens is insignificant; an object parses, everything else in
\* this alphabet raises JSONDecodeError (ok = FALSE).
json_loads(s, body) ==
    LET t == SelectSeq(s, LAMBDA c : c # " ")
    IN  IF t = Obj THEN [ok |-> TRUE, val |-> body]
        ELSE IF t = <<"{", "}">> THEN [ok |-> TRUE, val |-> <<>>]
        ELSE [ok |-> FALSE, val |-> None]

(***************************************************************************)
(* run_similarity_analysis                                                 *)
(***************************************************************************)
NoError == [kind |-> "None", detail |-> None]

required_keys == {"Similarity_Score_Percent", "Risk_Level", "Reasoning"}

\* The value returned, the st.error calls made and the number of
\* generate_content invocations.  outcome_ is "raises" when generate_content
\* raises (network, authentication, timeout, refusal) and "text" when it
\* returns text_, whose members denote body.  The message of the ValueError
\* embeds the parsed dict, kept as the detail of the error.
run_similarity_analysis_retry(client_, outcome_, text_, body) ==
    IF ~client_
    THEN [analysis_data |-> None, ui |-> <<>>, calls |-> 0,
          error |-> [kind |-> "Gemini client not initialized.", detail |-> None]]
    ELSE IF outcome_ = "raises"
    THEN [analysis_data |-> None, ui |-> <<>>, calls |-> 2,
          error |-> [kind |-> "Gemini API Call Failed", detail |-> None]]
    ELSE LET analysis_result == json_loads(clean_json_response(text_), body)
         IN  IF ~analysis_result.ok
             THEN [analysis_data |-> None, ui |-> <<"error_json_parsing_failed">>,
                   calls |-> 1,
                   error |-> [kind |-> "JSONDecodeError", detail |-> None]]
             ELSE IF ~(required_keys \subseteq DOMAIN analysis_result.val)
             THEN [analysis_data |-> None, ui |-> <<"error_data_validation_failed">>,
                   calls |-> 1,
                   error |-> [kind |-> "DataValidationError",
                              detail |-> analysis_result.val]]
             ELSE [analysis_data |-> analysis_result.val, ui |-> <<>>, calls |-> 1,
                   error |-> NoError]

run_similarity_analysis(client_, outcome_, text_, body) ==
    IF ~client_
    THEN [analysis_data |-> None, ui |-> <<>>, calls |-> 0,
          error |-> [kind |-> "Gemini client not initialized.", detail |-> None]]
    ELSE IF outcome_ = "raises"
    THEN [analysis_data |-> None, ui |-> <<>>, calls |-> 1,
          error |-> [kind |-> "Gemini API Call Failed", detail |-> None]]
    ELSE LET analysis_result == json_loads(clean_json_response(text_), body)
         IN  IF ~analysis_result.ok
             THEN [analysis_data |-> None, ui |-> <<"error_json_parsing_failed">>,
                   calls |-> 1,
                   error |-> [kind |-> "JSONDecodeError", detail |-> None]]
             ELSE IF ~(required_keys \subseteq DOMAIN analysis_result.val)
             THEN [analysis_data |-> None, ui |-> <<"error_data_validation_failed">>,
                   calls |-> 1,
                   error |-> [kind |-> "DataValidationError",
                              detail |-> analysis_result.val]]
             ELSE [analysis_data |-> analysis_result.val, ui |-> <<>>, calls |-> 1,
                   error |-> NoError]

(***************************************************************************)
(* send_email_report                                                       *)
(***************************************************************************)
NoReport == [built |-> FALSE, score |-> 0, action_rec |-> "none", alert |-> "none",
             matching_id |-> "none"]

\* dict.get('Matching_Product_ID', 'N/A')
MatchingIdOf(d) ==
    IF "Matching_Product_ID" \in DOMAIN d THEN d["Matching_Product_ID"].s[1] ELSE "N/A"

\* lines 187-191
EmailActionRec(score_) ==
    IF score_ >= 75 THEN "REJECT AND INVESTIGATE (High Similarity)"
    ELSE IF score_ >= 26 THEN "REVIEW NAME/PRICE (Medium Similarity)"
    ELSE "APPROVE (New Product)"

\* The value returned, the st.* calls made and the report body built.
send_email_report(analysis_data_, score_, sender_set_) ==
    IF ~sender_set_
    THEN [ret |-> FALSE, ui |-> <<"warning_email_setup_pending">>, report |-> NoReport]
    ELSE [ret |-> TRUE, ui |-> <<"success_report_prepared", "code_report_body">>,
          report |-> [built |-> TRUE, score |-> score_,
                      action_rec |-> EmailActionRec(score_),
                      alert |-> PyUpper(LabelOf(analysis_data_)),
                      matching_id |-> MatchingIdOf(analysis_data_)]]

(***************************************************************************)
(* The button handler                                                      *)
(***************************************************************************)
\* lines 228-232: int(value.strip()) under except ValueError.  A JSON integer
\* has no strip(): the AttributeError is not caught and ends the run.
ScoreConversion_uncaught(v) ==
    IF v.type # "str"
    THEN [raised |-> "AttributeError", score |-> 0, defaulted |-> FALSE]
    ELSE LET r == PyInt(PyStrip(v.s))
         IN  IF r.ok THEN [raised |-> "None", score |-> r.val, defaulted |-> FALSE]
             ELSE [raised |-> "ValueError", score |-> 0, defaulted |-> FALSE]

ScoreConversion(v) ==
    IF v.type # "str"
    THEN [raised |-> "AttributeError", score |-> 0, defaulted |-> FALSE]
    ELSE LET r == PyInt(PyStrip(v.s))
         IN  IF r.ok THEN [raised |-> "None", score |-> r.val, defaulted |-> FALSE]
             ELSE [raised |-> "None", score |-> 0, defaulted |-> TRUE]

\* lines 236-244: the banner and the recommended action
Classify(risk_, score_) ==
    IF risk_ = "high risk" \/ score_ >= 76
    THEN [tier |-> "HIGH RISK", action_rec |-> "REJECT AND INVESTIGATE"]
    ELSE IF risk_ = "medium risk" \/ score_ >= 26
    THEN [tier |-> "MEDIUM RISK", action_rec |-> "REVIEW NAME/PRICE"]
    ELSE [tier |-> "LOW RISK", action_rec |-> "APPROVE"]

\* line 258
ThresholdMet_high_band(score_) == score_ >= 76

ThresholdMet(score_) == score_ >= 75

\* the st.metric and st.markdown calls of lines 247-255
SummaryCalls ==
    <<"metric_similarity_score", "metric_matching_product_id",
      "metric_risk_level", "metric_recommended_action", "markdown_reasoning">>

Init ==
    /\ client \in BOOLEAN
    /\ sender_set \in BOOLEAN
    /\ pc = "idle"
    /\ calls = 0
    /\ response_text = <<>>
    /\ payload = None
    /\ analysis_data = None
    /\ error = NoError
    /\ score = 0
    /\ risk = "unset"
    /\ tier = "unset"
    /\ action_rec = "unset"
    /\ ui = <<>>
    /\ crashed = "None"
    /\ report = NoReport
    /\ sends = 0
    /\ outcome = "none"
    /\ raw = <<>>
    /\ cleaned = <<>>
    /\ recleaned = <<>>
    /\ cpc = "off"

harness_vars == <<raw, cleaned, recleaned, cpc>>

\* lines 217-218, 264-265: the button is pressed
ButtonClick ==
    /\ pc = "idle"
    /\ IF client
       THEN pc' = "analysis" /\ ui' = ui
       ELSE pc' = "done" /\ ui' = Append(ui, "warning_resolve_api_key")
    /\ UNCHANGED <<client, sender_set, calls, response_text, payload, analysis_data,
                   error, score, risk, tier, action_rec, crashed, report, sends,
                   outcome>>
    /\ UNCHANGED harness_vars

\* line 220: the call of run_similarity_analysis, with what the model service does
RunAnalysis ==
    /\ pc = "analysis"
    /\ \E o \in {"raises", "text"} :
       \E t \in (IF o = "text" THEN ResponseTexts ELSE {<<>>}) :
       \E b \in (IF o = "text" /\ \E k \in 1..Len(t) : t[k] = "B" THEN Payloads ELSE {None}) :
          LET r == run_similarity_analysis(client, o, t, b)
          IN  /\ outcome' = o
              /\ response_text' = t
              /\ payload' = b
              /\ analysis_data' = r.analysis_data
              /\ error' = r.error
              /\ calls' = calls + r.calls
              /\ ui' = ui \o r.ui
    /\ pc' = "display"
    /\ UNCHANGED <<client, sender_set, score, risk, tier, action_rec, crashed,
                   report, sends>>
    /\ UNCHANGED harness_vars

\* lines 223-255 and 262-263
DisplayResults ==
    /\ pc = "display"
    /\ IF Truthy(analysis_data)
       THEN LET conv == ScoreConversion(analysis_data["Similarity_Score_Percent"])
                head == ui \o <<"markdown_rule", "subheader_report">>
                cls  == Classify(PyLower(LabelOf(analysis_data)), conv.score)
            IN  IF conv.raised # "None"
                THEN /\ crashed' = conv.raised
                     /\ ui' = head
                     /\ pc' = "done"
                     /\ UNCHANGED <<score, risk, tier, action_rec>>
                ELSE /\ score' = conv.score
                     /\ risk' = PyLower(LabelOf(analysis_data))
                     /\ tier' = cls.tier
                     /\ action_rec' = cls.action_rec
                     /\ ui' = head
                              \o (IF conv.defaulted THEN <<"error_invalid_score">> ELSE <<>>)
                              \o <<"banner">> \o SummaryCalls
                     /\ pc' = "threshold"
                     /\ crashed' = crashed
       ELSE /\ IF error.kind # "None"
               THEN ui' = Append(ui, "error_analysis_failed")
               ELSE ui' = ui
            /\ pc' = "done"
            /\ UNCHANGED <<score, risk, tier, action_rec, crashed>>
    /\ UNCHANGED <<client, sender_set, calls, response_text, payload, analysis_data,
                   error, report, sends, outcome>>
    /\ UNCHANGED harness_vars

\* lines 257-260
ThresholdCheck ==
    /\ pc = "threshold"
    /\ IF ThresholdMet(score)
       THEN LET r == send_email_report(analysis_data, score, sender_set)
            IN  /\ ui' = ui \o <<"info_threshold_met">> \o r.ui
                /\ report' = r.report
                /\ sends' = sends + 1
       ELSE UNCHANGED <<ui, report, sends>>
    /\ pc' = "done"
    /\ UNCHANGED <<client, sender_set, calls, response_text, payload, analysis_data,
                   error, score, risk, tier, action_rec, crashed, outcome>>
    /\ UNCHANGED harness_vars

\* The next interaction reruns the script from the top: nothing of the last
\* run is kept but the client and the secrets.
Rerun ==
    /\ pc = "done"
    /\ pc' = "idle"
    /\ calls' = 0
    /\ response_text' = <<>>
    /\ payload' = None
    /\ analysis_data' = None
    /\ error' = NoError
    /\ score' = 0
    /\ risk' = "unset"
    /\ tier' = "unset"
    /\ action_rec' = "unset"
    /\ ui' = <<>>
    /\ crashed' = "None"
    /\ report' = NoReport
    /\ sends' = 0
    /\ outcome' = "none"
    /\ UNCHANGED <<client, sender_set>>
    /\ UNCHANGED harness_vars

Next == ButtonClick \/ RunAnalysis \/ DisplayResults \/ ThresholdCheck \/ Rerun

Spec == Init /\ [][Next]_vars

(***************************************************************************)
(* The normaliser on its own: clean_json_response applied to a text, and   *)
(* again to its result.                                                    *)
(***************************************************************************)
Segments == {Fence, <<"^">>, <<"{">>, <<"}">>, <<" ">>, <<"x">>, JsonTag}

RECURSIVE TextsOf(_)
TextsOf(n) ==
    IF n = 0 THEN {<<>>}
    ELSE LET shorter == TextsOf(n - 1)
         IN  shorter \cup {t \o g : t \in shorter, g \in Segments}

CleanInputs == TextsOf(MaxSegs)

InitClean ==
    /\ client = FALSE
    /\ sender_set = FALSE
    /\ pc = "off"
    /\ calls = 0
    /\ response_text = <<>>
    /\ payload = None
    /\ analysis_data = None
    /\ error = NoError
    /\ score = 0
    /\ risk = "unset"
    /\ tier = "unset"
    /\ action_rec = "unset"
    /\ ui = <<>>
    /\ crashed = "None"
    /\ report = NoReport
    /\ sends = 0
    /\ outcome = "none"
    /\ raw \in CleanInputs
    /\ cleaned = <<>>
    /\ recleaned = <<>>
    /\ cpc = "raw"

handler_vars == <<client, sender_set, pc, calls, response_text, payload,
                  analysis_data, error, score, risk, tier, action_rec, ui, crashed,
                  report, sends, outcome>>

CleanOnce ==
    /\ cpc = "raw"
    /\ cleaned' = clean_json_response(raw)
    /\ cpc' = "cleaned"
    /\ UNCHANGED <<raw, recleaned>>
    /\ UNCHANGED handler_vars

CleanAgain ==
    /\ cpc = "cleaned"
    /\ recleaned' = clean_json_response(cleaned)
    /\ cpc' = "recleaned"
    /\ UNCHANGED <<raw, cleaned>>
    /\ UNCHANGED handler_vars

NextClean == CleanOnce \/ CleanAgain

SpecClean == InitClean /\ [][NextClean]_vars

(***************************************************************************)
(* Properties                                                              *)
(***************************************************************************)
Shown(e) == \E k \in 1..Len(ui) : ui[k] = e

\* the result summary of lines 247-255 is on the page
ResultDisplayed == \A k \in 1..Len(SummaryCalls) : Shown(SummaryCalls[k])

\* the three kinds of recommended action
ActionKind(a) ==
    CASE a \in {"APPROVE", "APPROVE (New Product)"} -> "APPROVE"
      [] a \in {"REVIEW NAME/PRICE", "REVIEW NAME/PRICE (Medium Similarity)"} -> "REVIEW"
      [] a \in {"REJECT AND INVESTIGATE", "REJECT AND INVESTIGATE (High Similarity)"}
            -> "REJECT"
      [] OTHER -> "none"

\* the parsed response carried every required field
Accepted == outcome = "text" /\ ~IsNone(analysis_data)

\* C1: whenever a result is displayed, the banner and the action are
\* LOW/APPROVE for a score in 0..25, MEDIUM/REVIEW for 26..75 and HIGH/REJECT
\* for 76..100.
C1_TierFollowsBands ==
    ResultDisplayed =>
        /\ (0 <= score /\ score <= 25) =>
               (tier = "LOW RISK" /\ ActionKind(action_rec) = "APPROVE")
        /\ (26 <= score /\ score <= 75) =>
               (tier = "MEDIUM RISK" /\ ActionKind(action_rec) = "REVIEW")
        /\ (76 <= score /\ score <= 100) =>
               (tier = "HIGH RISK" /\ ActionKind(action_rec) = "REJECT")

\* C2: the banner and the action shown are the ones the handler shows for the
\* same score under every other Risk_Level text: the label has no influence.
C2_LabelHasNoInfluence ==
    ResultDisplayed =>
        \A l \in RiskLabels :
            Classify(PyLower(l), score) = [tier |-> tier, action_rec |-> action_rec]

\* C3: whenever a result is displayed, the score used for the banner, the
\* metrics and the threshold is an integer in 0..100.
C3_ScoreInRange ==
    ResultDisplayed => (score \in Int /\ 0 <= score /\ score <= 100)

\* C4: an accepted response whose score is a JSON integer, or the string
\* int() reads as an integer, ends with the result displayed and that number
\* as the score, never without a result.
C4_IntegerAndStringAccepted ==
    (pc = "done" /\ Accepted) =>
        LET v == analysis_data["Similarity_Score_Percent"]
        IN  /\ v.type = "int" => (ResultDisplayed /\ score = v.n)
            /\ (v.type = "str" /\ v.s \in IntegerStrings) =>
                   (ResultDisplayed /\ score = PyInt(v.s).val)

\* C5: an accepted response whose score is a string holding no number is not
\* aborted: once the handler is past the display step the result is on the
\* page with score 0, the invalid-score notice is shown and nothing raised.
C5_NonNumericDefaultsToZero ==
    (pc \in {"threshold", "done"} /\ Accepted
       /\ analysis_data["Similarity_Score_Percent"].type = "str"
       /\ analysis_data["Similarity_Score_Percent"].s \in NonNumericStrings) =>
        /\ ResultDisplayed
        /\ score = 0
        /\ Shown("error_invalid_score")
        /\ crashed = "None"
        /\ ~Shown("error_analysis_failed")

C5_Witness ==
    /\ pc = "done" /\ Accepted
    /\ analysis_data["Similarity_Score_Percent"].s = <<"x", "x", "x">>
    /\ ResultDisplayed /\ Shown("error_invalid_score") /\ score = 0

\* the required fields a parsed object lacks
MissingFields(d) == required_keys \ DOMAIN d

\* the field names that appear in the text of an error message
FieldsNamedIn(e) == IF IsNone(e.detail) THEN {} ELSE DOMAIN e.detail

\* C6: a parsed object lacking required fields ends in a validation error
\* naming exactly the missing fields, with no result returned, no summary
\* and no notification.
C6_IncompleteNamesMissing ==
    (pc = "done" /\ outcome = "text"
       /\ json_loads(clean_json_response(response_text), payload).ok
       /\ MissingFields(json_loads(clean_json_response(response_text), payload).val) # {}) =>
        /\ error.kind = "DataValidationError"
        /\ FieldsNamedIn(error) =
               MissingFields(json_loads(clean_json_response(response_text), payload).val)
        /\ IsNone(analysis_data)
        /\ ~ResultDisplayed
        /\ sends = 0

\* the first position of e in ui (0 when absent)
FirstShown(e) ==
    IF Shown(e) THEN CHOOSE k \in 1..Len(ui) : ui[k] = e /\ \A m \in 1..(k-1) : ui[m] # e
    ELSE 0

SendCalls == {"warning_email_setup_pending", "success_report_prepared", "code_report_body"}

\* C8: when the action has ended with a result displayed, send_email_report
\* was invoked (once) exactly when the score is >= 75; whatever it showed
\* comes after the whole summary; and a skipped send leaves the summary on
\* the page, raises nothing and reports no failed analysis.
C8_SendIffThreshold ==
    /\ sends <= 1
    /\ sends > 0 => ResultDisplayed
    /\ (pc = "done" /\ ResultDisplayed) =>
        /\ (sends = 1) <=> (score >= 75)
        /\ \A k \in 1..Len(ui) : ui[k] \in SendCalls =>
               \A j \in 1..Len(SummaryCalls) :
                   FirstShown(SummaryCalls[j]) > 0 /\ FirstShown(SummaryCalls[j]) < k
        /\ (sends = 1 /\ ~report.built) =>
               (crashed = "None" /\ ~Shown("error_analysis_failed")
                  /\ error = NoError)

C8_Witness ==
    /\ pc = "done" /\ ResultDisplayed /\ score = 75 /\ sends = 1
    /\ ~report.built /\ Shown("warning_email_setup_pending")

\* the invocation raised, or its text did not parse as JSON
InvocationOrParseFailed ==
    \/ outcome = "raises"
    \/ outcome = "text" /\ ~json_loads(clean_json_response(response_text), payload).ok

\* C9: an action invokes the model service at most once; when the invocation
\* raised or its text did not parse, the action ends with the failure shown,
\* no summary, no notification, and that one invocation.
C9_SingleAttempt ==
    /\ calls <= 1
    /\ (pc = "done" /\ InvocationOrParseFailed) =>
        /\ Shown("error_analysis_failed")
        /\ ~ResultDisplayed
        /\ ~Shown("banner")
        /\ sends = 0
        /\ calls = 1
        /\ crashed = "None"

C9_Witness ==
    /\ pc = "done" /\ outcome = "text" /\ error.kind = "JSONDecodeError"
    /\ response_text = <<"x", "x">>
    /\ calls = 1 /\ Shown("error_analysis_failed")

\* C10: a report that was built carries the kind of action the summary shows.
C10_ReportActionMatchesSummary ==
    report.built => ActionKind(report.action_rec) = ActionKind(action_rec)

\* a text that, trimmed, starts with "{" and ends with "}"
IsCleanObject(t) ==
    LET u == PyStrip(t) IN u # <<>> /\ u[1] = "{" /\ u[Len(u)] = "}"

\* C7: on a text that, trimmed, starts with "{" and ends with "}", whatever
\* lies between, clean_json_response returns the trimmed text, and a second
\* application returns the same again.
C7_CleanIsIdempotent ==
    /\ (cpc \in {"cleaned", "recleaned"} /\ IsCleanObject(raw)) => cleaned = PyStrip(raw)
    /\ (cpc = "recleaned" /\ IsCleanObject(raw)) => recleaned = cleaned

====
